---------------------------- MODULE Spec2Model ----------------------------
(***************************************************************************)
(* Model of backend/app/services/tree_analysis_service.py: the structural  *)
(* validator and the expected-value evaluator of a decision tree.          *)
(*                                                                         *)
(* A snapshot (tree.nodes) is a sequence of node records in stored order.  *)
(* Node ids are positive integers, an unset parent_node_id is NoParent,    *)
(* an unset probability / cost / utility is None.  Numbers are exact       *)
(* rationals <<numerator, denominator>> in lowest terms, denominator > 0   *)
(* (the program uses binary floats; the model does not cover rounding).    *)
(***************************************************************************)
EXTENDS Integers, Sequences, FiniteSets, TLC

VARIABLES tree, op, result, calls, db, runs, maps

vars == <<tree, op, result, calls, db, runs, maps>>

-----------------------------------------------------------------------------
(* Values *)

None == <<>>

NoParent == 0

Abs(x) == IF x < 0 THEN -x ELSE x

RECURSIVE GCD(_, _)
GCD(a, b) == IF b = 0 THEN a ELSE GCD(b, a % b)

Rat(n, d) == LET g == GCD(Abs(n), d) IN <<n \div g, d \div g>>

Zero == <<0, 1>>

One == <<1, 1>>

RAdd(a, b) == Rat(a[1] * b[2] + b[1] * a[2], a[2] * b[2])

RSub(a, b) == Rat(a[1] * b[2] - b[1] * a[2], a[2] * b[2])

RMul(a, b) == Rat(a[1] * b[1], a[2] * b[2])

RDivInt(a, k) == Rat(a[1], a[2] * k)

RNeg(a) == <<-a[1], a[2]>>

RAbs(a) == <<Abs(a[1]), a[2]>>

RLess(a, b) == a[1] * b[2] < b[1] * a[2]

RLeq(a, b) == a[1] * b[2] <= b[1] * a[2]

\* Python's "x or 0": None and 0 both give 0.
OrZero(x) == IF x = None THEN Zero ELSE x

\* sum(values) over a sequence of rationals
RECURSIVE RSum(_)
RSum(s) == IF s = <<>> THEN Zero ELSE RAdd(s[1], RSum(Tail(s)))

\* max(values) over a non-empty sequence of rationals
RECURSIVE RMax(_)
RMax(s) ==
    IF Len(s) = 1 THEN s[1]
    ELSE LET m == RMax(Tail(s)) IN IF RLess(s[1], m) THEN m ELSE s[1]

\* the tolerance of the probability sum check
Tolerance == <<1, 1000>>

-----------------------------------------------------------------------------
(* Node classification *)

\* [child for child in tree.nodes if child.parent_node_id == node.id]
ChildrenOf(all_nodes, node) ==
    SelectSeq(all_nodes, LAMBDA child : child.parent_node_id = node.id)

\* next((n for n in all_nodes if n.id == node.parent_node_id), None)
ParentIndex(all_nodes, node) ==
    LET hits == {i \in DOMAIN all_nodes : all_nodes[i].id = node.parent_node_id}
    IN  IF hits = {} THEN 0 ELSE CHOOSE i \in hits : \A j \in hits : i <= j

is_choice_node(node, all_nodes) ==
    IF node.node_type # "chance" \/ node.parent_node_id = NoParent
    THEN FALSE
    ELSE /\ ParentIndex(all_nodes, node) # 0
         /\ all_nodes[ParentIndex(all_nodes, node)].node_type = "decision"

is_uncertain_event(node, all_nodes) ==
    node.node_type = "chance" /\ ~is_choice_node(node, all_nodes)

-----------------------------------------------------------------------------
(* validate_tree_structure *)

\* One message of the issues or warnings list: its kind, the node it names
\* and, where the message names a second node, that node (else 0).
Msg(kind, node, under) == [kind |-> kind, node |-> node, under |-> under]

\* Mutant: a node that names itself as its parent counts as a root too.
RootNodesOrSelf(all_nodes) ==
    SelectSeq(all_nodes, LAMBDA node : node.parent_node_id \in {NoParent, node.id})

\* [node for node in tree.nodes if node.parent_node_id is None]
RootNodes(all_nodes) ==
    SelectSeq(all_nodes, LAMBDA node : node.parent_node_id = NoParent)

ValidProbability(p) == RLeq(Zero, p) /\ RLeq(p, One)

\* The loop over uncertain_children (lines 291-298): the messages it appends.
ChildProbabilityIssues(node, uncertain_children) ==
    LET f[i \in 0..Len(uncertain_children)] ==
            IF i = 0 THEN <<>>
            ELSE LET child == uncertain_children[i]
                 IN  f[i - 1] \o
                     (IF child.probability = None
                      THEN <<Msg("child_missing_probability", child.id, node.id)>>
                      ELSE IF ~ValidProbability(child.probability)
                           THEN <<Msg("child_invalid_probability", child.id, 0)>>
                           ELSE <<>>)
    IN  f[Len(uncertain_children)]

\* total_probability after the loop (lines 288-298)
TotalProbability(uncertain_children) ==
    RSum([i \in 1..Len(uncertain_children) |->
            OrZero(uncertain_children[i].probability)])

MissingProbabilities(uncertain_children) ==
    Cardinality({i \in 1..Len(uncertain_children) :
                    uncertain_children[i].probability = None})

\* Mutant: the sum check runs even when a sibling's probability is missing.
ProbabilitySumIssuesAlways(all_nodes, node, children) ==
    IF is_uncertain_event(node, all_nodes) /\ Len(children) > 1
    THEN LET uncertain_children ==
                 SelectSeq(children, LAMBDA c : is_uncertain_event(c, all_nodes))
         IN  IF Len(uncertain_children) > 1
             THEN ChildProbabilityIssues(node, uncertain_children) \o
                  (IF RLess(Tolerance,
                            RAbs(RSub(TotalProbability(uncertain_children), One)))
                   THEN <<Msg("probability_sum", node.id, 0)>>
                   ELSE <<>>)
             ELSE <<>>
    ELSE <<>>

\* Lines 284-302: the probability sum check of an uncertain event's children.
ProbabilitySumIssues(all_nodes, node, children) ==
    IF is_uncertain_event(node, all_nodes) /\ Len(children) > 1
    THEN LET uncertain_children ==
                 SelectSeq(children, LAMBDA c : is_uncertain_event(c, all_nodes))
         IN  IF Len(uncertain_children) > 1
             THEN ChildProbabilityIssues(node, uncertain_children) \o
                  (IF /\ MissingProbabilities(uncertain_children) = 0
                      /\ RLess(Tolerance,
                               RAbs(RSub(TotalProbability(uncertain_children), One)))
                   THEN <<Msg("probability_sum", node.id, 0)>>
                   ELSE <<>>)
             ELSE <<>>
    ELSE <<>>

\* The issues one iteration of the per-node loop appends (lines 236-317).
NodeIssues(all_nodes, node) ==
    LET children   == ChildrenOf(all_nodes, node)
        is_choice    == is_choice_node(node, all_nodes)
        is_uncertain == is_uncertain_event(node, all_nodes)
    IN  CASE node.node_type = "terminal" ->
                (IF node.utility = None
                 THEN <<Msg("terminal_missing_utility", node.id, 0)>> ELSE <<>>) \o
                (IF node.probability # None
                 THEN <<Msg("terminal_has_probability", node.id, 0)>> ELSE <<>>)
          [] node.node_type = "chance" ->
                (IF is_choice
                 THEN (IF children = <<>>
                       THEN <<Msg("choice_no_outcomes", node.id, 0)>> ELSE <<>>)
                 ELSE IF is_uncertain
                 THEN (IF node.probability = None
                       THEN <<Msg("uncertain_missing_probability", node.id, 0)>>
                       ELSE IF ~ValidProbability(node.probability)
                            THEN <<Msg("uncertain_invalid_probability", node.id, 0)>>
                            ELSE <<>>) \o
                      (IF children = <<>>
                       THEN <<Msg("uncertain_no_outcomes", node.id, 0)>> ELSE <<>>)
                 ELSE <<>>) \o
                ProbabilitySumIssues(all_nodes, node, children)
          [] OTHER -> <<>>

\* Mutant: a negative cost is not reported.
CostWarningsNone(node) == <<>>

\* Lines 315-317: a negative cost is a warning.
CostWarnings(node) ==
    IF node.cost # None /\ RLess(node.cost, Zero)
    THEN <<Msg("negative_cost", node.id, 0)>> ELSE <<>>

\* The warnings one iteration of the per-node loop appends (lines 236-317).
NodeWarnings(all_nodes, node) ==
    LET children   == ChildrenOf(all_nodes, node)
        is_choice    == is_choice_node(node, all_nodes)
        is_uncertain == is_uncertain_event(node, all_nodes)
    IN  (CASE node.node_type = "terminal" ->
                (IF children # <<>>
                 THEN <<Msg("terminal_has_children", node.id, 0)>> ELSE <<>>)
          [] node.node_type = "chance" ->
                (IF is_choice
                 THEN (IF node.probability # None
                       THEN <<Msg("choice_has_probability", node.id, 0)>> ELSE <<>>) \o
                      (IF node.utility # None
                       THEN <<Msg("choice_has_utility", node.id, 0)>> ELSE <<>>)
                 ELSE IF is_uncertain
                 THEN (IF node.utility # None
                       THEN <<Msg("uncertain_has_utility", node.id, 0)>> ELSE <<>>)
                 ELSE <<>>)
          [] node.node_type = "decision" ->
                (IF children = <<>>
                 THEN <<Msg("decision_no_choices", node.id, 0)>> ELSE <<>>) \o
                (IF node.probability # None
                 THEN <<Msg("decision_has_probability", node.id, 0)>> ELSE <<>>) \o
                (IF node.utility # None
                 THEN <<Msg("decision_has_utility", node.id, 0)>> ELSE <<>>)
          [] OTHER -> <<>>) \o
        CostWarnings(node)

\* Mutant: more than one root is an issue as well.
RootIssuesStrict(root_nodes) ==
    IF Len(root_nodes) = 0 THEN <<Msg("no_root", 0, 0)>>
    ELSE IF Len(root_nodes) > 1 THEN <<Msg("multiple_roots", 0, 0)>>
    ELSE <<>>

\* Lines 230-231: no root is an issue.
RootIssues(root_nodes) ==
    IF Len(root_nodes) = 0 THEN <<Msg("no_root", 0, 0)>> ELSE <<>>

\* Lines 232-233: more than one root is a warning.
RootWarnings(root_nodes) ==
    IF Len(root_nodes) > 1 THEN <<Msg("multiple_roots", 0, 0)>> ELSE <<>>

\* Mutant: a parent id that names no node goes unreported.
OrphanIssuesNone(all_nodes) == <<>>

\* Lines 319-324: a parent id that is set and is no node's id.
OrphanIssues(all_nodes) ==
    LET node_ids == {all_nodes[i].id : i \in DOMAIN all_nodes}
        f[i \in 0..Len(all_nodes)] ==
            IF i = 0 THEN <<>>
            ELSE f[i - 1] \o
                 (IF /\ all_nodes[i].parent_node_id # NoParent
                     /\ all_nodes[i].parent_node_id \notin node_ids
                  THEN <<Msg("invalid_parent_reference", all_nodes[i].id, 0)>>
                  ELSE <<>>)
    IN  f[Len(all_nodes)]

\* Mutant: warnings count against validity as issues do.
IsValidStrict(issues, warnings) == Len(issues) = 0 /\ Len(warnings) = 0

\* "valid": len(issues) == 0  (line 327)
IsValid(issues, warnings) == Len(issues) = 0

\* Mutant: the empty snapshot is reported without its issue.
EmptyTreeValidationSilent ==
    [valid |-> FALSE, issues |-> <<>>,
     warnings |-> <<>>, node_count |-> 0, root_count |-> 0]

\* The early return for a snapshot without nodes (lines 211-218)
EmptyTreeValidation ==
    [valid |-> FALSE, issues |-> <<Msg("no_nodes", 0, 0)>>,
     warnings |-> <<>>, node_count |-> 0, root_count |-> 0]

\* validate_tree_structure(tree), lines 203-332
validate_tree_structure(all_nodes) ==
    IF all_nodes = <<>>
    THEN EmptyTreeValidation
    ELSE LET root_nodes == RootNodes(all_nodes)
             per_issues[i \in 0..Len(all_nodes)] ==
                 IF i = 0 THEN <<>>
                 ELSE per_issues[i - 1] \o NodeIssues(all_nodes, all_nodes[i])
             per_warnings[i \in 0..Len(all_nodes)] ==
                 IF i = 0 THEN <<>>
                 ELSE per_warnings[i - 1] \o NodeWarnings(all_nodes, all_nodes[i])
             issues == RootIssues(root_nodes) \o
                       per_issues[Len(all_nodes)] \o OrphanIssues(all_nodes)
             warnings == RootWarnings(root_nodes) \o
                         per_warnings[Len(all_nodes)]
         IN  [valid |-> IsValid(issues, warnings),
              issues |-> issues, warnings |-> warnings,
              node_count |-> Len(all_nodes), root_count |-> Len(root_nodes)]

-----------------------------------------------------------------------------
(* calculate_expected_value *)

\* The two per-call maps: expected_values and calculation_breakdown (the
\* breakdown is kept as its "type" entry), and two counts per node that the
\* code does not keep: how often the body of calculate_node_ev ran for the
\* node (body) and how often a request was answered from expected_values
\* (memo), how many calls of calculate_node_ev are open (level), the most
\* that were open at once (deepest) and whether the interpreter gave up on
\* the recursion (raised).
NoValues ==
    [ev |-> <<>>, bd |-> <<>>, body |-> <<>>, memo |-> <<>>,
     level |-> 0, deepest |-> 0, raised |-> FALSE]

\* The number of open calls of calculate_node_ev at which the interpreter
\* raises RecursionError instead of entering one more (1000 frames by
\* default in CPython; any number above the size of the snapshots serves).
RecursionLimit == 8

\* One more call of calculate_node_ev is open.
Enter(st) ==
    [st EXCEPT !.level = @ + 1,
               !.deepest = IF st.level + 1 > @ THEN st.level + 1 ELSE @]

\* The call returns, or the exception leaves it.
Leave(st) == [st EXCEPT !.level = @ - 1]

\* counts[id] + 1, other entries unchanged
Count(counts, id) ==
    [x \in (DOMAIN counts) \cup {id} |->
        IF x = id THEN (IF id \in DOMAIN counts THEN counts[id] + 1 ELSE 1)
        ELSE counts[x]]

\* expected_values[node_id] = ev and calculation_breakdown[node_id] = {...},
\* at the end of one run of the body
Put(st, id, ev, type) ==
    [st EXCEPT
        !.ev = [x \in (DOMAIN st.ev) \cup {id} |-> IF x = id THEN ev ELSE st.ev[x]],
        !.bd = [x \in (DOMAIN st.bd) \cup {id} |-> IF x = id THEN type ELSE st.bd[x]],
        !.body = Count(st.body, id)]

\* Mutant: no request is answered from expected_values.
MemoisedNever(st, node) == FALSE

\* Line 72: node_id in expected_values
Memoised(st, node) == node.id \in DOMAIN st.ev

\* Mutant: the node's cost is not subtracted.
TerminalValueNoCost(node) == OrZero(node.utility)

\* Lines 78-81: the value of a terminal node.
TerminalValue(node) == RSub(OrZero(node.utility), OrZero(node.cost))

\* Mutant: the first child is taken instead of the best one.
DecisionValueFirst(node, child_evs) == RSub(child_evs[1], OrZero(node.cost))

\* Mutant: the least child value is taken instead of the greatest.
DecisionValueLeast(node, child_evs) ==
    RSub(RNeg(RMax([i \in DOMAIN child_evs |-> RNeg(child_evs[i])])),
         OrZero(node.cost))

\* Lines 99-101: the value of a decision node with children.
DecisionValue(node, child_evs) == RSub(RMax(child_evs), OrZero(node.cost))

\* Mutant: an uncertain child's probability is not applied.
ContributionUnweighted(all_nodes, child, child_ev) == child_ev

\* Lines 128-138: one child's contribution to a choice node's weighted_sum.
Contribution(all_nodes, child, child_ev) ==
    IF is_uncertain_event(child, all_nodes)
    THEN RMul(OrZero(child.probability), child_ev)
    ELSE child_ev

\* Lines 125-141: the value of a choice node with children.
ChoiceValue(all_nodes, node, children, child_evs) ==
    RSub(RSum([i \in 1..Len(children) |->
                  Contribution(all_nodes, children[i], child_evs[i])]),
         OrZero(node.cost))

\* Mutant: the node's own probability weights its value.
UncertainValueWeighted(node, child_evs) ==
    RSub(RMul(OrZero(node.probability),
              IF Len(child_evs) = 1 THEN child_evs[1]
              ELSE RDivInt(RSum(child_evs), Len(child_evs))),
         OrZero(node.cost))

\* Lines 151-158: the value of an uncertain event with children.
UncertainValue(node, child_evs) ==
    RSub(IF Len(child_evs) = 1 THEN child_evs[1]
         ELSE RDivInt(RSum(child_evs), Len(child_evs)),
         OrZero(node.cost))

\* calculate_node_ev(node), lines 69-188: the two maps after the call; the
\* call's return value is then expected_values[node.id].
RECURSIVE calculate_node_ev(_, _, _)
RECURSIVE EvalChildren(_, _, _)
EvalChildren(all_nodes, children, st) ==
    IF children = <<>> THEN st
    ELSE EvalChildren(all_nodes, Tail(children),
                      calculate_node_ev(all_nodes, Head(children), st))

calculate_node_ev(all_nodes, node, st) ==
    IF st.raised THEN st
    ELSE IF st.level >= RecursionLimit THEN [st EXCEPT !.raised = TRUE]
    ELSE
    LET in       == Enter(st)
        children == ChildrenOf(all_nodes, node)
        cost     == OrZero(node.cost)
        after    == EvalChildren(all_nodes, children, in)
        child_evs == [i \in 1..Len(children) |-> after.ev[children[i].id]]
        \* line 103 asks for every child's value once more
        named    == EvalChildren(all_nodes, children, after)
    IN  Leave(
        IF Memoised(in, node)
        THEN [in EXCEPT !.memo = Count(in.memo, node.id)]
        ELSE
        CASE node.node_type = "terminal" ->
                Put(in, node.id, TerminalValue(node), "terminal")
          [] node.node_type = "decision" ->
                IF children = <<>>
                THEN Put(in, node.id, RNeg(cost), "decision")
                ELSE IF named.raised THEN named
                ELSE Put(named, node.id, DecisionValue(node, child_evs), "decision")
          [] node.node_type = "chance" ->
                IF children = <<>>
                THEN Put(in, node.id, RNeg(cost), "chance")
                ELSE IF after.raised THEN after
                ELSE IF is_choice_node(node, all_nodes)
                THEN Put(after, node.id,
                         ChoiceValue(all_nodes, node, children, child_evs),
                         "chance_choice")
                ELSE IF is_uncertain_event(node, all_nodes)
                THEN Put(after, node.id, UncertainValue(node, child_evs),
                         "chance_uncertain")
                ELSE Put(after, node.id,
                         RSub(RDivInt(RSum(child_evs), Len(child_evs)), cost),
                         "chance_fallback")
          [] OTHER -> Put(in, node.id, RNeg(cost), "unknown"))

\* Mutant: the refusal does not carry the validator's issues.
ValidationFailureBare(validation) == [error |-> "Tree validation failed"]

\* The result of a refused evaluation (lines 44-48)
ValidationFailure(validation) ==
    [error |-> "Tree validation failed", validation_errors |-> validation.issues]

\* Mutant: the last parentless node is taken as the root.
RootNodeLast(root_nodes) == root_nodes[Len(root_nodes)]

\* Line 64: root_node = root_nodes[0]
RootNode(root_nodes) == root_nodes[1]

\* The counts of the call calculate_node_ev(root_node) of line 191; no
\* counts when the evaluation is refused before it.
Counts(all_nodes) ==
    IF all_nodes = <<>> \/ ~validate_tree_structure(all_nodes).valid
       \/ RootNodes(all_nodes) = <<>>
    THEN [body |-> <<>>, memo |-> <<>>, deepest |-> 0]
    ELSE LET st == calculate_node_ev(all_nodes,
                                     RootNode(RootNodes(all_nodes)), NoValues)
         IN  [body |-> st.body, memo |-> st.memo, deepest |-> st.deepest]

\* calculate_expected_value(tree), lines 30-200
calculate_expected_value(all_nodes) ==
    IF all_nodes = <<>>
    THEN [error |-> "Tree has no nodes"]
    ELSE LET validation == validate_tree_structure(all_nodes)
             root_nodes == RootNodes(all_nodes)
         IN  IF ~validation.valid
             THEN ValidationFailure(validation)
             ELSE IF root_nodes = <<>>
             THEN [error |-> "No root node found"]
             ELSE LET root_node == RootNode(root_nodes)
                      st == calculate_node_ev(all_nodes, root_node, NoValues)
                  IN  IF st.raised
                      THEN [raised |-> "RecursionError"]
                      ELSE
                      [root_expected_value |-> st.ev[root_node.id],
                       node_expected_values |-> st.ev,
                       calculation_breakdown |-> st.bd,
                       analysis_complete |-> TRUE,
                       calculation_method |-> "recursive_corrected",
                       root_node_id |-> root_node.id]

-----------------------------------------------------------------------------
(* get_optimal_path *)

\* expected_values.get(str(node.id), 0)
EvGet(expected_values, node) ==
    IF node.id \in DOMAIN expected_values THEN expected_values[node.id] ELSE Zero

\* The nearest integer to x * scale, ties to the even one: the number a
\* ":.1f" or ":.2f" format prints, counted in its last printed digit.
RoundScaled(x, scale) ==
    LET n == x[1] * scale
        d == x[2]
        fl == n \div d
        twice == 2 * (n - fl * d)
    IN  IF twice < d THEN fl
        ELSE IF twice > d THEN fl + 1
        ELSE IF fl % 2 = 0 THEN fl ELSE fl + 1

\* Mutant: steps are counted from 0.
StepIndexFromZero(path) == Len(path)

\* "step": len(path) + 1
StepIndex(path) == Len(path) + 1

\* A step is a record of one shape: node steps carry the node, its type and
\* its value; action steps carry the action, the child it names (0 for a
\* header) and what the action's text prints of the child.
Step(path, kind, node, node_type, expected_value, percent, depth) ==
    [step |-> StepIndex(path), kind |-> kind, node |-> node,
     node_type |-> node_type, expected_value |-> expected_value,
     percent |-> percent, depth |-> depth]

\* Lines 360-366: the step of the node the walk is at.
NodeStep(path, node, expected_values, depth) ==
    Step(path, "node", node.id, node.node_type,
         EvGet(expected_values, node), None, depth)

\* Mutant: among children of equal value the last one is taken.
BestChildLast(children, expected_values) ==
    LET best == {i \in DOMAIN children :
                    \A j \in DOMAIN children :
                        RLeq(EvGet(expected_values, children[j]),
                             EvGet(expected_values, children[i]))}
    IN  children[CHOOSE i \in best : \A j \in best : j <= i]

\* max(children, key=lambda child: expected_values.get(str(child.id), 0)):
\* the first child whose value no other child exceeds.
BestChild(children, expected_values) ==
    LET best == {i \in DOMAIN children :
                    \A j \in DOMAIN children :
                        RLeq(EvGet(expected_values, children[j]),
                             EvGet(expected_values, children[i]))}
    IN  children[CHOOSE i \in best : \A j \in best : i <= j]

\* Lines 396-410: one bullet per child, in stored order.
RECURSIVE OutcomeSteps(_, _, _, _)
OutcomeSteps(children, expected_values, depth, path) ==
    IF children = <<>> THEN path
    ELSE LET child == Head(children)
             child_ev == EvGet(expected_values, child)
             bullet == Step(path, "outcome", child.id, "",
                            RoundScaled(child_ev, 100),
                            IF child.probability # None
                            THEN RoundScaled(RMul(child.probability, <<100, 1>>), 10)
                            ELSE None,
                            depth + 2)
         IN  OutcomeSteps(Tail(children), expected_values, depth,
                          Append(path, bullet))

\* Mutant: the walk continues into a terminal best child as well.
ContinuesIntoAlways(best_child) == TRUE

\* Line 413: below a chance node the walk continues only into a best child
\* that is not terminal.
ContinuesInto(best_child) == best_child.node_type # "terminal"

\* build_path(node, depth), lines 359-422: the path after the call.
RECURSIVE build_path(_, _, _, _, _)
build_path(all_nodes, expected_values, node, depth, path) ==
    LET own == Append(path, NodeStep(path, node, expected_values, depth))
        children == ChildrenOf(all_nodes, node)
        best_child == BestChild(children, expected_values)
    IN  IF node.node_type = "decision" /\ children # <<>>
        THEN LET chosen ==
                     Append(own, Step(own, "choose", best_child.id, "",
                                      EvGet(expected_values, best_child),
                                      None, depth + 1))
             IN  build_path(all_nodes, expected_values, best_child,
                            depth + 2, chosen)
        ELSE IF node.node_type = "chance" /\ children # <<>>
        THEN LET header ==
                     Append(own, Step(own,
                                      IF is_choice_node(node, all_nodes)
                                      THEN "choice_outcomes"
                                      ELSE "uncertain_outcomes",
                                      0, "", None, None, depth + 1))
                 listed == OutcomeSteps(children, expected_values, depth, header)
             IN  IF ContinuesInto(best_child)
                 THEN build_path(all_nodes, expected_values, best_child,
                                 depth + 2,
                                 Append(listed,
                                        Step(listed, "continue", best_child.id,
                                             "", None, None, depth + 1)))
                 ELSE listed
        ELSE own

\* Lines 341-342: the failure of get_optimal_path keeps the error text only.
AnalysisFailure(analysis) == [error |-> analysis.error]

\* get_optimal_path(tree), lines 335-429
get_optimal_path(all_nodes) ==
    LET analysis == calculate_expected_value(all_nodes)
        root_nodes == RootNodes(all_nodes)
    IN  IF "raised" \in DOMAIN analysis
        THEN analysis
        ELSE IF "error" \in DOMAIN analysis
        THEN AnalysisFailure(analysis)
        ELSE IF root_nodes = <<>>
        THEN [error |-> "No root node found"]
        ELSE [optimal_path |->
                  build_path(all_nodes, analysis.node_expected_values,
                             root_nodes[1], 0, <<>>),
              root_expected_value |-> analysis.root_expected_value]

-----------------------------------------------------------------------------
(* decision_tree_service.py: the stored trees and nodes *)

\* The tables: the ids of the stored trees, the stored nodes in stored order,
\* and the next unused tree id and node id (ids are uuid4 values in the
\* program; the model hands out numbers that were never used before).
EmptyStore == [trees |-> {}, nodes |-> <<>>, next_tree |-> 1, next_node |-> 1]

\* None, where the program returns a stored object or None.
Missing == 0

\* A call that raises: nothing is committed.
Raise(store, message) == [db |-> store, result |-> [raised |-> message]]

\* A call that returns.
Return(store, value) == [db |-> store, result |-> [returned |-> value]]

\* DecisionTreeService.create_tree without a root node, lines 41-75
create_tree(store) ==
    Return([store EXCEPT !.trees = @ \cup {store.next_tree},
                         !.next_tree = @ + 1],
           store.next_tree)

\* TreeNodeService.get_node, lines 166-172: the node, or None.
get_node(store, node_id) ==
    LET hits == {i \in DOMAIN store.nodes : store.nodes[i].id = node_id}
    IN  IF hits = {} THEN None ELSE store.nodes[CHOOSE i \in hits : TRUE]

\* TreeNode.validate_node, models/decision_tree.py lines 110-126: whether it
\* returns errors.
validate_node(node) ==
    CASE node.node_type = "chance" ->
            \/ node.probability = None
            \/ ~(RLeq(Zero, node.probability) /\ RLeq(node.probability, One))
      [] node.node_type = "terminal" -> node.utility = None
      [] OTHER -> FALSE

\* Mutant: the parent's tree is not compared with the new node's tree.
ParentRefusedIfMissing(store, tree_id, parent_node_id) ==
    IF parent_node_id = NoParent THEN ""
    ELSE IF get_node(store, parent_node_id) = None THEN "Invalid parent node"
    ELSE ""

\* create_node lines 185-193: the error the parent check raises, "" if none.
ParentRefused(store, tree_id, parent_node_id) ==
    IF parent_node_id = NoParent THEN ""
    ELSE IF get_node(store, parent_node_id) = None THEN "Invalid parent node"
    ELSE IF get_node(store, parent_node_id).tree_id # tree_id
    THEN "Parent node belongs to different tree"
    ELSE ""

\* TreeNodeService.create_node, lines 182-217
create_node(store, tree_id, node_data) ==
    LET refused == ParentRefused(store, tree_id, node_data.parent_node_id)
        node == [id |-> store.next_node,
                 tree_id |-> tree_id,
                 parent_node_id |-> node_data.parent_node_id,
                 node_type |-> node_data.node_type,
                 probability |-> node_data.probability,
                 cost |-> OrZero(node_data.cost),
                 utility |-> node_data.utility,
                 position |-> 0]
    IN  IF refused # "" THEN Raise(store, refused)
        ELSE IF validate_node(node) THEN Raise(store, "validate_node")
        ELSE Return([store EXCEPT !.nodes = Append(@, node),
                                  !.next_node = @ + 1],
                    node.id)

\* Mutant: the walk towards the root finds nothing.
RECURSIVE ReachesNever(_, _, _, _)
ReachesNever(store, current_parent, node_id, fuel) == "clear"

\* move_node lines 287-295: the walk from the new parent towards the root.
\* "circular" when it meets the moved node, "clear" when it runs out of
\* parents, "endless" when it goes round a cycle that does not hold the node.
RECURSIVE Reaches(_, _, _, _)
Reaches(store, current_parent, node_id, fuel) ==
    IF current_parent = None THEN "clear"
    ELSE IF current_parent.id = node_id THEN "circular"
    ELSE IF current_parent.parent_node_id = NoParent THEN "clear"
    ELSE IF fuel = 0 THEN "endless"
    ELSE Reaches(store, get_node(store, current_parent.parent_node_id),
                 node_id, fuel - 1)

\* move_node lines 297-303: the node with its new parent and position.
Moved(store, node_id, new_parent_id, position) ==
    [store EXCEPT !.nodes =
        [i \in DOMAIN @ |->
            IF @[i].id = node_id
            THEN [@[i] EXCEPT !.parent_node_id = new_parent_id,
                              !.position = position]
            ELSE @[i]]]

\* TreeNodeService.move_node, lines 274-303
move_node(store, node_id, new_parent_id, position) ==
    LET node == get_node(store, node_id)
        new_parent == get_node(store, new_parent_id)
        moved == Return(Moved(store, node_id, new_parent_id, position),
                        node_id)
    IN  IF node = None THEN Return(store, Missing)
        ELSE IF new_parent_id = NoParent THEN moved
        ELSE IF new_parent = None THEN
            Raise(store, "Invalid new parent node")
        ELSE IF new_parent.tree_id # node.tree_id THEN
            Raise(store, "Invalid new parent node")
        ELSE CASE Reaches(store, new_parent, node_id, Len(store.nodes))
                      = "circular" ->
                    Raise(store,
                          "Cannot move node - would create circular reference")
               [] Reaches(store, new_parent, node_id, Len(store.nodes))
                      = "endless" ->
                    Raise(store, "never returns")
               [] OTHER -> moved

\* delete_node line 257: the stored nodes whose parent is check_node_id.
ChildIds(store, check_node_id) ==
    {store.nodes[i].id : i \in
        {j \in DOMAIN store.nodes :
            store.nodes[j].parent_node_id = check_node_id}}

\* Mutant: only the children are collected, not their descendants.
RECURSIVE get_children_only(_, _, _)
get_children_only(store, check_node_id, fuel) == ChildIds(store, check_node_id)

\* No id: what get_descendants yields where the recursion never ends.
Overflow == -1

\* delete_node lines 256-261, get_descendants: the ids of every node below
\* check_node_id.  The recursion is deeper than the number of stored nodes
\* only on a cycle, where the interpreter ends it with RecursionError.
RECURSIVE get_descendants(_, _, _)
get_descendants(store, check_node_id, fuel) ==
    IF fuel = 0 THEN {Overflow}
    ELSE ChildIds(store, check_node_id) \cup
         UNION {get_descendants(store, c, fuel - 1) :
                    c \in ChildIds(store, check_node_id)}

\* TreeNodeService.delete_node, lines 249-272
delete_node(store, node_id) ==
    LET gone == get_descendants(store, node_id, Len(store.nodes)) \cup {node_id}
    IN  IF get_node(store, node_id) = None THEN Return(store, FALSE)
        ELSE IF Overflow \in gone THEN Raise(store, "RecursionError")
        ELSE Return([store EXCEPT !.nodes =
                        SelectSeq(@, LAMBDA n : n.id \notin gone)],
                    TRUE)

\* duplicate_tree line 129, original_tree.nodes: the nodes of one tree.
NodesOfTree(store, tree_id) ==
    SelectSeq(store.nodes, LAMBDA n : n.tree_id = tree_id)

\* duplicate_tree line 144, node_mapping: the new id of the old node that is
\* the k-th node of the original tree.
NodeMapping(store, originals, old_id) ==
    store.next_node + (CHOOSE k \in DOMAIN originals :
                           originals[k].id = old_id) - 1

\* duplicate_tree line 150: node_mapping has no entry for a node's parent.
KeyMissing(originals) ==
    \E k \in DOMAIN originals :
        /\ originals[k].parent_node_id # NoParent
        /\ \A j \in DOMAIN originals :
               originals[j].id # originals[k].parent_node_id

\* Mutant: the copy keeps the original's parent id.
NewParentSame(store, originals, old_node) == old_node.parent_node_id

\* duplicate_tree lines 147-154: the parent of the copy of old_node.
NewParent(store, originals, old_node) ==
    IF old_node.parent_node_id = NoParent THEN NoParent
    ELSE NodeMapping(store, originals, old_node.parent_node_id)

\* DecisionTreeService.duplicate_tree, lines 106-158
duplicate_tree(store, tree_id) ==
    LET originals == NodesOfTree(store, tree_id)
        copies == [k \in DOMAIN originals |->
                     [id |-> store.next_node + k - 1,
                      tree_id |-> store.next_tree,
                      parent_node_id |-> NewParent(store, originals, originals[k]),
                      node_type |-> originals[k].node_type,
                      probability |-> originals[k].probability,
                      cost |-> originals[k].cost,
                      utility |-> originals[k].utility,
                      position |-> originals[k].position]]
    IN  IF tree_id \notin store.trees THEN Return(store, Missing)
        ELSE IF KeyMissing(originals) THEN Raise(store, "KeyError")
        ELSE Return([store EXCEPT !.trees = @ \cup {store.next_tree},
                                  !.next_tree = @ + 1,
                                  !.nodes = @ \o copies,
                                  !.next_node = @ + Len(copies)],
                    store.next_tree)

-----------------------------------------------------------------------------
(* Snapshots the caller may supply *)

\* Largest snapshot of the family of single-rooted trees.
MaxNodes == 4

\* Largest snapshot to which one field edit is applied.
MaxEditedNodes == 3

\* Size of the snapshots of the family of deep trees.
DeepNodes == 5

NodeTypes == {"decision", "chance", "terminal"}

Attr(p, c, u) == [probability |-> p, cost |-> c, utility |-> u]

\* The attributes a node of each kind is given in the family of trees.
Profiles(type) ==
    CASE type = "terminal" -> {Attr(None, None, <<100, 1>>), Attr(None, <<10, 1>>, <<0, 1>>)}
      [] type = "chance"   -> {Attr(<<2, 5>>, None, None), Attr(<<3, 5>>, <<10, 1>>, None)}
      [] type = "decision" -> {Attr(None, None, None), Attr(None, <<10, 1>>, None)}

\* The attributes of the nodes of a snapshot before an edit.
PlainProfiles(type) ==
    CASE type = "terminal" -> {Attr(None, None, <<100, 1>>)}
      [] type = "chance"   -> {Attr(<<2, 5>>, None, None)}
      [] type = "decision" -> {Attr(None, None, None)}

\* The attributes of node i of a deep tree: every terminal has its own utility.
DeepProfiles(i, type) ==
    CASE type = "terminal" -> {Attr(None, None, <<(i * 70) % 120, 1>>)}
      [] type = "chance"   -> {Attr(<<2, 5>>, None, None), Attr(<<3, 5>>, <<10, 1>>, None)} \cup
                              (IF i = 1 THEN {Attr(None, None, None)} ELSE {})
      [] type = "decision" -> {Attr(None, None, None)}

MakeNode(i, parent, type, a) ==
    [id |-> i, parent_node_id |-> parent, node_type |-> type,
     probability |-> a.probability, cost |-> a.cost, utility |-> a.utility]

\* The parents node i of a tree may have: none for node 1, else one of the
\* three nodes before it.
ParentChoices(i) ==
    IF i = 1 THEN {NoParent} ELSE {j \in (i - 3)..(i - 1) : j >= 1}

RECURSIVE Trees(_)
Trees(n) ==
    IF n = 0 THEN {<<>>}
    ELSE {Append(s, x) :
            s \in Trees(n - 1),
            x \in UNION {{MakeNode(n, parent, type, a) :
                             parent \in ParentChoices(n), a \in Profiles(type)} :
                         type \in NodeTypes}}

RECURSIVE PlainTrees(_)
PlainTrees(n) ==
    IF n = 0 THEN {<<>>}
    ELSE {Append(s, x) :
            s \in PlainTrees(n - 1),
            x \in UNION {{MakeNode(n, parent, type, a) :
                             parent \in ParentChoices(n), a \in PlainProfiles(type)} :
                         type \in NodeTypes}}

\* The parents node i of a deep tree may have: one of the two nodes before it.
DeepParentChoices(i) ==
    IF i = 1 THEN {NoParent} ELSE {j \in {i - 1, i - 2} : j >= 1}

RECURSIVE DeepTrees(_)
DeepTrees(n) ==
    IF n = 0 THEN {<<>>}
    ELSE {Append(s, x) :
            s \in DeepTrees(n - 1),
            x \in UNION {{MakeNode(n, parent, type, a) :
                             parent \in DeepParentChoices(n), a \in DeepProfiles(n, type)} :
                         type \in NodeTypes}}

ProbabilityValues == {None, <<2, 5>>, <<3, 5>>, <<3, 2>>}

CostValues == {None, <<10, 1>>, <<-5, 1>>}

UtilityValues == {None, <<0, 1>>, <<100, 1>>}

\* A snapshot with one field of one node set to any value of its domain: any
\* kind (known or not), any parent id (none, itself, a later node, an id of
\* no node).
Edits(s) ==
    UNION {
        {[s EXCEPT ![i].probability = v] : v \in ProbabilityValues} \cup
        {[s EXCEPT ![i].cost = v] : v \in CostValues} \cup
        {[s EXCEPT ![i].utility = v] : v \in UtilityValues} \cup
        {[s EXCEPT ![i].parent_node_id = v] : v \in 0..(Len(s) + 1)} \cup
        {[s EXCEPT ![i].node_type = v] : v \in NodeTypes \cup {"other"}}
        : i \in 1..Len(s)}

-----------------------------------------------------------------------------
(* The service: a caller holds a snapshot and calls one operation on it. *)

NoResult == [none |-> TRUE]

NoCalls == [body |-> <<>>, memo |-> <<>>, deepest |-> 0]

Init ==
    /\ \/ \E n \in 0..MaxNodes : tree \in Trees(n)
       \/ \E n \in 1..MaxEditedNodes : \E s \in PlainTrees(n) : tree \in Edits(s)
    /\ op = "idle"
    /\ result = NoResult
    /\ calls = NoCalls
    /\ db = EmptyStore
    /\ runs = <<>>
    /\ maps = <<>>

InitDeep ==
    /\ tree \in DeepTrees(DeepNodes)
    /\ op = "idle"
    /\ result = NoResult
    /\ calls = NoCalls
    /\ db = EmptyStore
    /\ runs = <<>>
    /\ maps = <<>>

Validate ==
    /\ op = "idle"
    /\ op' = "validate_tree_structure"
    /\ result' = validate_tree_structure(tree)
    /\ calls' = NoCalls
    /\ UNCHANGED <<tree, db, runs, maps>>

CalculateExpectedValue ==
    /\ op = "idle"
    /\ op' = "calculate_expected_value"
    /\ result' = calculate_expected_value(tree)
    /\ calls' = Counts(tree)
    /\ UNCHANGED <<tree, db, runs, maps>>

GetOptimalPath ==
    /\ op = "idle"
    /\ op' = "get_optimal_path"
    /\ result' = get_optimal_path(tree)
    /\ calls' = Counts(tree)
    /\ UNCHANGED <<tree, db, runs, maps>>

Next == Validate \/ CalculateExpectedValue \/ GetOptimalPath

Spec == Init /\ [][Next]_vars

SpecDeep == InitDeep /\ [][Next]_vars

-----------------------------------------------------------------------------
(* The store under sequences of service calls *)

\* The most trees and the most node ids the store ever hands out.
MaxTrees == 2

MaxNodeIds == 4

\* The positions a caller moves a node to (a new node is stored at 0).
Positions == {1}

\* The ids a caller may name: every id handed out so far, and one that was
\* never handed out.
NamedNodes == 1..db.next_node

NamedTrees == 1..db.next_tree

\* The requests a caller sends to create_node, less the parent.  At the top
\* of a tree it asks for a chance node, or for one without probability,
\* which validate_node refuses; under a parent it asks for an outcome, or for one
\* without utility, which validate_node refuses.
NodeRequests(parent_node_id) ==
    IF parent_node_id = NoParent
    THEN {[node_type |-> "chance", probability |-> <<2, 5>>,
           cost |-> <<5, 1>>, utility |-> None],
          [node_type |-> "chance", probability |-> None,
           cost |-> None, utility |-> None]}
    ELSE {[node_type |-> "terminal", probability |-> None, cost |-> None,
           utility |-> <<100, 1>>],
          [node_type |-> "terminal", probability |-> None, cost |-> None,
           utility |-> None]}

WithParent(request, parent_node_id) ==
    [parent_node_id |-> parent_node_id,
     node_type |-> request.node_type,
     probability |-> request.probability,
     cost |-> request.cost,
     utility |-> request.utility]

InitStore ==
    /\ tree = <<>>
    /\ op = "idle"
    /\ result = NoResult
    /\ calls = NoCalls
    /\ db = EmptyStore
    /\ runs = <<>>
    /\ maps = <<>>

\* One service call: the committed tables and what the caller gets back.
Call(name, out) ==
    /\ op' = name
    /\ db' = out.db
    /\ result' = out.result
    /\ UNCHANGED <<tree, calls, runs, maps>>

CreateTree ==
    /\ db.next_tree <= MaxTrees
    /\ Call("create_tree", create_tree(db))

CreateNode ==
    /\ db.next_node <= MaxNodeIds
    /\ \E tree_id \in db.trees, parent_node_id \in {NoParent} \cup NamedNodes :
        \E request \in NodeRequests(parent_node_id) :
            Call("create_node",
                 create_node(db, tree_id, WithParent(request, parent_node_id)))

MoveNode ==
    \E node_id \in NamedNodes, new_parent_id \in {NoParent} \cup NamedNodes,
       position \in Positions :
        Call("move_node", move_node(db, node_id, new_parent_id, position))

DeleteNode ==
    \E node_id \in NamedNodes : Call("delete_node", delete_node(db, node_id))

DuplicateTree ==
    \E tree_id \in NamedTrees :
        /\ db.next_tree <= MaxTrees
        /\ db.next_node + Len(NodesOfTree(db, tree_id)) - 1 <= MaxNodeIds
        /\ Call("duplicate_tree", duplicate_tree(db, tree_id))

NextStore ==
    CreateTree \/ CreateNode \/ MoveNode \/ DeleteNode \/ DuplicateTree

SpecStore == InitStore /\ [][NextStore]_vars

-----------------------------------------------------------------------------
(* Properties *)

Validated == op = "validate_tree_structure"

Calculated == op = "calculate_expected_value"

\* The evaluation returned values (it was not refused).
Succeeded == Calculated /\ "node_expected_values" \in DOMAIN result

Evaluated(node) == node.id \in DOMAIN result.node_expected_values

EvOf(node) == result.node_expected_values[node.id]

Nodes == {tree[i] : i \in DOMAIN tree}

HasMsg(msgs, m) == \E k \in DOMAIN msgs : msgs[k] = m

CountMsg(msgs, m) == Cardinality({k \in DOMAIN msgs : msgs[k] = m})

NoValuesReturned ==
    /\ "root_expected_value" \notin DOMAIN result
    /\ "node_expected_values" \notin DOMAIN result

C2_ValidIffNoIssues ==
    Validated => (result.valid <=> result.issues = <<>>)

\* A snapshot with warnings was found valid.
C2_Witness ==
    /\ Validated
    /\ result.valid
    /\ Len(result.warnings) >= 2

ScenarioA ==
    /\ Len(tree) = 1
    /\ tree[1].node_type = "terminal"
    /\ tree[1].parent_node_id = NoParent
    /\ tree[1].utility = <<100, 1>>
    /\ tree[1].cost = <<10, 1>>
    /\ tree[1].probability = None

\* C3: in a successful evaluation every evaluated terminal node has the value
\* utility - cost, with or without children attached to it; a single terminal
\* root of utility 100 and cost 10 gives root_expected_value 90.
C3_TerminalValue ==
    Succeeded =>
        /\ \A n \in Nodes :
              (n.node_type = "terminal" /\ Evaluated(n)) =>
                  /\ n.utility # None
                  /\ EvOf(n) = RSub(n.utility, OrZero(n.cost))
        /\ ScenarioA => result.root_expected_value = <<90, 1>>

\* A terminal node with a cost and with a child attached was evaluated.
C3_Witness ==
    /\ Succeeded
    /\ \E n \in Nodes :
          /\ n.node_type = "terminal"
          /\ Evaluated(n)
          /\ n.cost = <<10, 1>>
          /\ ChildrenOf(tree, n) # <<>>

\* C4: in a successful evaluation every evaluated decision node with children
\* has the value of its best child minus its cost, and one without children
\* has the value -cost.
C4_DecisionValue ==
    Succeeded =>
        \A d \in Nodes :
            (d.node_type = "decision" /\ Evaluated(d)) =>
                LET kids == {c \in Nodes : c.parent_node_id = d.id}
                IN  IF kids = {}
                    THEN EvOf(d) = RNeg(OrZero(d.cost))
                    ELSE /\ \A c \in kids : Evaluated(c)
                         /\ \E c \in kids : EvOf(d) = RSub(EvOf(c), OrZero(d.cost))
                         /\ \A c \in kids :
                               RLeq(RSub(EvOf(c), OrZero(d.cost)), EvOf(d))

\* A decision node with a cost whose first child is not its best was evaluated.
C4_Witness ==
    /\ Succeeded
    /\ \E d \in Nodes :
          /\ d.node_type = "decision"
          /\ Evaluated(d)
          /\ d.cost = <<10, 1>>
          /\ Len(ChildrenOf(tree, d)) >= 2
          /\ RLess(EvOf(ChildrenOf(tree, d)[1]), EvOf(ChildrenOf(tree, d)[2]))

\* The sum of the contributions of a choice node's children: probability
\* times value for an uncertain-event child, the value itself otherwise.
ExpectedChoiceSum(kids) ==
    LET f[i \in 0..Len(kids)] ==
            IF i = 0 THEN Zero
            ELSE RAdd(f[i - 1],
                      IF kids[i].node_type = "chance"
                         /\ ~is_choice_node(kids[i], tree)
                      THEN RMul(kids[i].probability, EvOf(kids[i]))
                      ELSE EvOf(kids[i]))
    IN  f[Len(kids)]

\* C5: in a successful evaluation every evaluated choice node (a chance node
\* the classifier is_choice_node accepts) with children has the value: sum
\* over its children of probability * value for an uncertain-event child and
\* of the value for any other child, minus its cost.
C5_ChoiceValue ==
    Succeeded =>
        \A v \in Nodes :
            (is_choice_node(v, tree) /\ Evaluated(v) /\ ChildrenOf(tree, v) # <<>>) =>
                /\ \A i \in DOMAIN ChildrenOf(tree, v) : Evaluated(ChildrenOf(tree, v)[i])
                /\ EvOf(v) = RSub(ExpectedChoiceSum(ChildrenOf(tree, v)), OrZero(v.cost))

\* A choice node with an uncertain-event child and another child, both of
\* non-zero value, was evaluated.
C5_Witness ==
    /\ Succeeded
    /\ \E v \in Nodes :
          /\ is_choice_node(v, tree)
          /\ Evaluated(v)
          /\ \E i, j \in DOMAIN ChildrenOf(tree, v) :
                LET a == ChildrenOf(tree, v)[i]
                    b == ChildrenOf(tree, v)[j]
                IN  /\ is_uncertain_event(a, tree)
                    /\ a.probability # None /\ a.probability # One
                    /\ EvOf(a) # Zero
                    /\ b.node_type = "terminal"
                    /\ EvOf(b) # Zero
          /\ v.cost = <<10, 1>>

RootChance(n) == n.node_type = "chance" /\ n.parent_node_id = NoParent

\* C6 as stated: a chance node without parent is a choice node for the
\* validator and for the evaluator: the validator reports no missing
\* probability for it, and the evaluator values it by the choice rule (the
\* weighted sum of its children's contributions minus its cost).
C6_RootChanceIsChoice ==
    /\ Validated =>
          \A n \in Nodes :
              RootChance(n) =>
                  ~HasMsg(result.issues, Msg("uncertain_missing_probability", n.id, 0))
    /\ Succeeded =>
          \A n \in Nodes :
              (RootChance(n) /\ Evaluated(n) /\ ChildrenOf(tree, n) # <<>>) =>
                  EvOf(n) = RSub(ExpectedChoiceSum(ChildrenOf(tree, n)), OrZero(n.cost))

\* C7: in a successful evaluation every evaluated uncertain event with one
\* child has that child's value minus its cost, and one with several children
\* has the arithmetic mean of their values minus its cost; its own
\* probability is no part of its value.
C7_UncertainValue ==
    Succeeded =>
        \A u \in Nodes :
            (is_uncertain_event(u, tree) /\ Evaluated(u) /\ ChildrenOf(tree, u) # <<>>) =>
                LET kids == ChildrenOf(tree, u)
                    total == RSum([i \in DOMAIN kids |-> EvOf(kids[i])])
                IN  /\ \A i \in DOMAIN kids : Evaluated(kids[i])
                    /\ Len(kids) = 1 => EvOf(u) = RSub(EvOf(kids[1]), OrZero(u.cost))
                    /\ Len(kids) > 1 =>
                          RMul(RAdd(EvOf(u), OrZero(u.cost)), <<Len(kids), 1>>) = total

\* An uncertain event with a probability, a cost and several children of
\* different values was evaluated.
C7_Witness ==
    /\ Succeeded
    /\ \E u \in Nodes :
          /\ is_uncertain_event(u, tree)
          /\ Evaluated(u)
          /\ u.probability = <<3, 5>>
          /\ u.cost = <<10, 1>>
          /\ Len(ChildrenOf(tree, u)) >= 2
          /\ EvOf(ChildrenOf(tree, u)[1]) # EvOf(ChildrenOf(tree, u)[2])

UncertainChildren(p) ==
    SelectSeq(ChildrenOf(tree, p), LAMBDA c : is_uncertain_event(c, tree))

SumIssuesNaming(p) ==
    Cardinality({k \in DOMAIN result.issues :
                    result.issues[k].kind = "probability_sum"
                    /\ result.issues[k].node = p})

\* C8 as stated: for every node of any kind with two or more uncertain-event
\* children that all have a probability, the validator reports exactly one
\* probability-sum issue naming the node (and valid is FALSE) when the
\* probabilities sum to a value further than 0.001 from 1, and none when the
\* sum is within 0.001 of 1.
C8_SumCheckedUnderEveryParent ==
    Validated =>
        \A p \in Nodes :
            LET uc == UncertainChildren(p)
                total == RSum([i \in DOMAIN uc |-> uc[i].probability])
            IN  (Len(uc) >= 2 /\ \A i \in DOMAIN uc : uc[i].probability # None) =>
                    IF RLess(Tolerance, RAbs(RSub(total, One)))
                    THEN SumIssuesNaming(p.id) = 1 /\ ~result.valid
                    ELSE SumIssuesNaming(p.id) = 0

\* C9: for every group of uncertain-event siblings in which a sibling has no
\* probability, the validator emits no probability-sum issue for the group's
\* parent, reports each missing probability as an issue, and valid is FALSE.
C9_MissingProbabilitySuppressesSum ==
    Validated =>
        \A q \in {n.parent_node_id : n \in Nodes} :
            LET group == {n \in Nodes :
                            n.parent_node_id = q /\ is_uncertain_event(n, tree)}
            IN  (\E n \in group : n.probability = None) =>
                    /\ SumIssuesNaming(q) = 0
                    /\ \A n \in group :
                          n.probability = None =>
                              HasMsg(result.issues,
                                     Msg("uncertain_missing_probability", n.id, 0))
                    /\ ~result.valid

\* An uncertain event with two uncertain-event children, one with and one
\* without a probability, was validated.
C9_Witness ==
    /\ Validated
    /\ \E p \in Nodes :
          /\ is_uncertain_event(p, tree)
          /\ Len(UncertainChildren(p)) >= 2
          /\ \E i, j \in DOMAIN UncertainChildren(p) :
                /\ UncertainChildren(p)[i].probability = None
                /\ UncertainChildren(p)[j].probability # None

\* C10: the validator returns a structured result for every snapshot; for
\* the snapshot without nodes the result is valid = FALSE with the single
\* issue "Tree has no nodes", no warnings, node_count 0 and root_count 0.
C10_ValidatorTotal ==
    Validated =>
        /\ DOMAIN result = {"valid", "issues", "warnings", "node_count", "root_count"}
        /\ result.valid \in BOOLEAN
        /\ result.node_count = Len(tree)
        /\ \A k \in DOMAIN result.issues :
              DOMAIN result.issues[k] = {"kind", "node", "under"}
        /\ tree = <<>> =>
              result = [valid |-> FALSE, issues |-> <<Msg("no_nodes", 0, 0)>>,
                        warnings |-> <<>>, node_count |-> 0, root_count |-> 0]

\* The snapshot without nodes was validated.
C10_Witness == Validated /\ tree = <<>>

Unparented == {i \in DOMAIN tree : tree[i].parent_node_id = NoParent}

\* C11: for a non-empty snapshot, no node with an unset parent is an issue
\* (valid is FALSE), more than one is a warning and no issue, and root_count
\* is the number of nodes with an unset parent.
C11_RootCount ==
    (Validated /\ tree # <<>>) =>
        /\ result.root_count = Cardinality(Unparented)
        /\ Cardinality(Unparented) = 0 =>
              HasMsg(result.issues, Msg("no_root", 0, 0)) /\ ~result.valid
        /\ Cardinality(Unparented) > 1 =>
              /\ HasMsg(result.warnings, Msg("multiple_roots", 0, 0))
              /\ \A k \in DOMAIN result.issues :
                    result.issues[k].kind \notin {"no_root", "multiple_roots"}
        /\ Cardinality(Unparented) = 1 =>
              /\ ~HasMsg(result.warnings, Msg("multiple_roots", 0, 0))
              /\ ~HasMsg(result.issues, Msg("no_root", 0, 0))

\* A snapshot with two roots was found valid.
C11_Witness ==
    /\ Validated
    /\ Cardinality(Unparented) = 2
    /\ result.valid
    /\ result.warnings = <<Msg("multiple_roots", 0, 0)>>

Dangling(n) ==
    /\ n.parent_node_id # NoParent
    /\ \A m \in Nodes : m.id # n.parent_node_id

\* C12: when some node's parent id is set and names no node of the snapshot,
\* the validator reports an invalid-parent-reference issue naming that node,
\* valid is FALSE, and calculate_expected_value returns a failure without
\* values.
C12_DanglingParentRefused ==
    /\ Validated =>
          \A n \in Nodes :
              Dangling(n) =>
                  /\ HasMsg(result.issues, Msg("invalid_parent_reference", n.id, 0))
                  /\ ~result.valid
    /\ (Calculated /\ \E n \in Nodes : Dangling(n)) =>
          /\ "error" \in DOMAIN result
          /\ NoValuesReturned

\* An evaluation was refused for a dangling parent reference alone.
C12_Witness ==
    /\ Calculated
    /\ \E n \in Nodes :
          /\ Dangling(n)
          /\ "validation_errors" \in DOMAIN result
          /\ result.validation_errors = <<Msg("invalid_parent_reference", n.id, 0)>>

\* C13 as stated: a decision node with a probability or a utility, a choice
\* node with a probability or a utility and an uncertain event with a utility
\* each make the validator return valid = FALSE.
C13_AttributeRulesAreIssues ==
    Validated =>
        \A n \in Nodes :
            (/\ n.node_type \in {"decision", "chance"}
             /\ \/ n.utility # None
                \/ n.probability # None /\ ~is_uncertain_event(n, tree)) =>
                ~result.valid

PathRequested == op = "get_optimal_path"

\* get_optimal_path returned a path (it was not refused).
PathFound == PathRequested /\ "optimal_path" \in DOMAIN result

NodeById(id) == CHOOSE n \in Nodes : n.id = id

\* The values the evaluator gives the nodes of the snapshot.
Values == calculate_expected_value(tree).node_expected_values

\* The positions of child c among the children of n, in stored order.
Earlier(n, c) ==
    LET children == ChildrenOf(tree, n)
        at == CHOOSE i \in DOMAIN children : children[i] = c
    IN  {children[j] : j \in 1..(at - 1)}

\* c is the child of n of highest value, the first one among equals.
FirstBest(values, n, c) ==
    /\ c.parent_node_id = n.id
    /\ \A d \in Nodes :
          d.parent_node_id = n.id => RLeq(values[d.id], values[c.id])
    /\ \A d \in Earlier(n, c) : RLess(values[d.id], values[c.id])

\* Step i of the path is the node step of a node of the given type that has
\* children.
AtParent(i, type) ==
    /\ result.optimal_path[i].kind = "node"
    /\ result.optimal_path[i].node_type = type
    /\ ChildrenOf(tree, NodeById(result.optimal_path[i].node)) # <<>>

\* C15: when the walk is at a decision node with children, the step after the
\* node's own step names the child of highest expected value, the first in
\* stored order among equals, and the step after that is that child's own
\* node step.
C15_DecisionFollowsFirstBest ==
    PathFound =>
        LET values == Values IN
        \A i \in DOMAIN result.optimal_path :
            AtParent(i, "decision") =>
                /\ i + 2 <= Len(result.optimal_path)
                /\ result.optimal_path[i + 1].kind = "choose"
                /\ FirstBest(values, NodeById(result.optimal_path[i].node),
                             NodeById(result.optimal_path[i + 1].node))
                /\ result.optimal_path[i + 1].expected_value =
                       values[result.optimal_path[i + 1].node]
                /\ result.optimal_path[i + 2].kind = "node"
                /\ result.optimal_path[i + 2].node = result.optimal_path[i + 1].node

\* The walk chose the first of two children of equal, highest value.
C15_Witness ==
    /\ PathFound
    /\ \E i \in DOMAIN result.optimal_path :
          /\ AtParent(i, "decision")
          /\ \E d \in Nodes :
                /\ d.parent_node_id = result.optimal_path[i].node
                /\ d.id # result.optimal_path[i + 1].node
                /\ Values[d.id] = result.optimal_path[i + 1].expected_value

\* Steps i+1 .. i+1+k of the path are the header and one bullet per child of
\* the chance node of step i, in stored order.
Enumerated(i) ==
    LET children == ChildrenOf(tree, NodeById(result.optimal_path[i].node))
    IN  /\ i + 1 + Len(children) <= Len(result.optimal_path)
        /\ result.optimal_path[i + 1].kind \in
               {"choice_outcomes", "uncertain_outcomes"}
        /\ \A j \in DOMAIN children :
              /\ result.optimal_path[i + 1 + j].kind = "outcome"
              /\ result.optimal_path[i + 1 + j].node = children[j].id

\* A terminal node's own step is the last step of the path.
TerminalStepsAreLast ==
    \A i \in DOMAIN result.optimal_path :
        (/\ result.optimal_path[i].kind = "node"
         /\ result.optimal_path[i].node_type = "terminal") =>
            i = Len(result.optimal_path)

\* C16 as stated: at a chance node with children all children are enumerated
\* and the walk then enters the child of highest expected value, so that
\* child's node step follows, a terminal one included; a terminal's node
\* step ends the path.
C16_ChanceRecursesIntoBest ==
    PathFound =>
        LET values == Values IN
        /\ TerminalStepsAreLast
        /\ \A i \in DOMAIN result.optimal_path :
              AtParent(i, "chance") =>
                  /\ Enumerated(i)
                  /\ \E j \in DOMAIN result.optimal_path :
                        /\ j > i
                        /\ result.optimal_path[j].kind = "node"
                        /\ FirstBest(values,
                                     NodeById(result.optimal_path[i].node),
                                     NodeById(result.optimal_path[j].node))

\* C16 amended: at a chance node with children all children are enumerated;
\* when the child of highest expected value is not terminal, a step naming it
\* and then its own node step follow; when it is terminal the path ends with
\* the enumeration and has no node step for it.  A terminal's node step ends
\* the path.
C16_ChanceRecursesUnlessTerminal ==
    PathFound =>
        LET values == Values IN
        /\ TerminalStepsAreLast
        /\ \A i \in DOMAIN result.optimal_path :
              AtParent(i, "chance") =>
                  LET n == NodeById(result.optimal_path[i].node)
                      last == i + 1 + Len(ChildrenOf(tree, n))
                      best == CHOOSE c \in Nodes : FirstBest(values, n, c)
                  IN  /\ Enumerated(i)
                      /\ best.node_type = "terminal" =>
                            Len(result.optimal_path) = last
                      /\ best.node_type # "terminal" =>
                            /\ last + 2 <= Len(result.optimal_path)
                            /\ result.optimal_path[last + 1].kind = "continue"
                            /\ result.optimal_path[last + 1].node = best.id
                            /\ result.optimal_path[last + 2].kind = "node"
                            /\ result.optimal_path[last + 2].node = best.id

\* The walk enumerated the children of a chance node whose best child is
\* terminal, below a node it had entered before.
C16_Witness ==
    /\ PathFound
    /\ \E i \in DOMAIN result.optimal_path :
          /\ i > 1
          /\ AtParent(i, "chance")
          /\ Len(ChildrenOf(tree, NodeById(result.optimal_path[i].node))) > 1
          /\ Len(result.optimal_path) =
                 i + 1 + Len(ChildrenOf(tree, NodeById(result.optimal_path[i].node)))

\* C17: the i-th step of the returned path has step = i, for node steps and
\* action steps alike and across the levels of the recursion.
C17_StepsNumberedInOrder ==
    PathFound =>
        \A i \in DOMAIN result.optimal_path : result.optimal_path[i].step = i

\* A path with node steps of two levels and action steps between them.
C17_Witness ==
    /\ PathFound
    /\ \E i, j, k \in DOMAIN result.optimal_path :
          /\ i < j /\ j < k
          /\ result.optimal_path[i].kind = "node"
          /\ result.optimal_path[j].kind = "continue"
          /\ result.optimal_path[k].kind = "node"
          /\ result.optimal_path[k].step = k

\* C18 as stated: for a snapshot the validator rejects, get_optimal_path
\* returns a failure that carries the validator's issue list and no
\* optimal_path.
C18_PathFailureCarriesIssues ==
    (PathRequested /\ ~validate_tree_structure(tree).valid) =>
        /\ "error" \in DOMAIN result
        /\ "optimal_path" \notin DOMAIN result
        /\ "validation_errors" \in DOMAIN result
        /\ result.validation_errors = validate_tree_structure(tree).issues

\* C19 as stated: for a snapshot that passes validation, node_expected_values
\* has an entry for every node of the snapshot.
C19_EveryNodeValued ==
    Succeeded => \A n \in Nodes : Evaluated(n)

\* C20: within one call of calculate_expected_value the body of
\* calculate_node_ev runs exactly once for every node that gets a value and
\* for no other node; every further request for a node is answered from
\* expected_values.
C20_BodyRunsOncePerNode ==
    Succeeded =>
        /\ DOMAIN calls.body = DOMAIN result.node_expected_values
        /\ \A id \in DOMAIN calls.body : calls.body[id] = 1
        /\ \A n \in Nodes :
              (/\ n.node_type = "decision"
               /\ Evaluated(n)) =>
                  \A c \in Nodes :
                      c.parent_node_id = n.id =>
                          /\ c.id \in DOMAIN calls.memo
                          /\ calls.memo[c.id] = 1

\* A decision node below the root was valued: its children were requested
\* twice each, ran once and were answered from the memo once.
C20_Witness ==
    /\ Succeeded
    /\ \E n, c \in Nodes :
          /\ n.node_type = "decision"
          /\ n.parent_node_id # NoParent
          /\ c.parent_node_id = n.id
          /\ c.id \in DOMAIN calls.memo
          /\ calls.memo[c.id] = 1
          /\ calls.body[c.id] = 1

\* C21 as stated: on a snapshot the validator accepts, no node is valued by
\* the unknown-kind fallback of calculate_node_ev.
C21_NoUnknownKindValued ==
    Succeeded =>
        \A id \in DOMAIN result.calculation_breakdown :
            result.calculation_breakdown[id] # "unknown"

\* The parentless nodes of the snapshot, in stored order.
ParentlessIds ==
    {tree[i].id : i \in {j \in DOMAIN tree : tree[j].parent_node_id = NoParent}}

\* C29: in every successful result of calculate_expected_value root_node_id
\* is the id of the first node in stored order that has no parent,
\* root_expected_value is node_expected_values[root_node_id], and
\* calculation_breakdown has the key set of node_expected_values.
C29_ResultConsistent ==
    Succeeded =>
        /\ \E i \in DOMAIN tree :
              /\ tree[i].id = result.root_node_id
              /\ tree[i].parent_node_id = NoParent
              /\ \A j \in 1..(i - 1) : tree[j].parent_node_id # NoParent
        /\ result.root_node_id \in DOMAIN result.node_expected_values
        /\ result.root_expected_value =
               result.node_expected_values[result.root_node_id]
        /\ DOMAIN result.calculation_breakdown = DOMAIN result.node_expected_values

\* A snapshot with two parentless nodes of different value was evaluated.
C29_Witness ==
    /\ Succeeded
    /\ Cardinality(ParentlessIds) = 2
    /\ \E n \in Nodes :
          /\ n.parent_node_id = NoParent
          /\ n.id # result.root_node_id
          /\ n.node_type = "terminal"
          /\ RSub(OrZero(n.utility), OrZero(n.cost)) # result.root_expected_value

NegativeCost(n) == n.cost # None /\ RLess(n.cost, Zero)

\* The value the evaluator gives node n of the snapshot once n's cost is
\* cleared.
CostFree(n) ==
    LET at == CHOOSE i \in DOMAIN tree : tree[i] = n
    IN  calculate_expected_value([tree EXCEPT ![at].cost = None])
            .node_expected_values[n.id]

\* C30: a negative cost is reported as a warning naming the node and never as
\* an issue; a snapshot whose only findings are warnings stays valid and is
\* evaluated; and a valued node with a negative cost has its cost-free value
\* minus the cost, which is above the cost-free value.
C30_NegativeCostIsWarning ==
    /\ Validated =>
          /\ \A n \in Nodes :
                NegativeCost(n) =>
                    HasMsg(result.warnings, Msg("negative_cost", n.id, 0))
          /\ \A k \in DOMAIN result.issues : result.issues[k].kind # "negative_cost"
    /\ Calculated =>
          /\ validate_tree_structure(tree).issues = <<>> =>
                "node_expected_values" \in DOMAIN result
          /\ "node_expected_values" \in DOMAIN result =>
                \A n \in Nodes :
                    (NegativeCost(n) /\ Evaluated(n)) =>
                        /\ EvOf(n) = RSub(CostFree(n), n.cost)
                        /\ RLess(CostFree(n), EvOf(n))

\* A snapshot whose only finding is a negative cost was evaluated.
C30_Witness ==
    /\ Succeeded
    /\ validate_tree_structure(tree).warnings # <<>>
    /\ \A k \in DOMAIN validate_tree_structure(tree).warnings :
          validate_tree_structure(tree).warnings[k].kind = "negative_cost"
    /\ \E n \in Nodes : NegativeCost(n) /\ Evaluated(n)

\* Node n lies on a cycle of the parent relation: following parent ids from
\* n leads back to n.
RECURSIVE AncestorIds(_, _)
AncestorIds(id, fuel) ==
    IF fuel = 0 THEN {}
    ELSE LET parents == {m.parent_node_id : m \in {k \in Nodes : k.id = id}}
                            \ {NoParent}
         IN  parents \cup UNION {AncestorIds(q, fuel - 1) : q \in parents}

OnCycle(n) == n.id \in AncestorIds(n.id, Len(tree))

RECURSIVE SubtreeIds(_, _)
SubtreeIds(id, fuel) ==
    {id} \cup
    (IF fuel = 0 THEN {}
     ELSE UNION {SubtreeIds(k.id, fuel - 1) :
                    k \in {m \in Nodes : m.parent_node_id = id}})

\* The snapshot without child c and c's subtree.
Without(c) ==
    LET gone == SubtreeIds(c.id, Len(tree))
    IN  SelectSeq(tree, LAMBDA n : n.id \notin gone)

\* The pairs (d, c) of a valued decision node and one of its children.
DecisionChildPairs ==
    {p \in Nodes \X Nodes :
        /\ p[1].node_type = "decision"
        /\ Evaluated(p[1])
        /\ p[2].parent_node_id = p[1].id}

\* C23 as stated: removing any single child of a decision node d, with the
\* child's subtree, from a validated snapshot cannot increase the value the
\* evaluator gives d, also when the child is d's only child.
C23_RemovalNeverIncreases ==
    Succeeded =>
        \A p \in DecisionChildPairs :
            LET smaller == calculate_expected_value(Without(p[2]))
            IN  /\ "node_expected_values" \in DOMAIN smaller
                /\ p[1].id \in DOMAIN smaller.node_expected_values
                /\ RLeq(smaller.node_expected_values[p[1].id], EvOf(p[1]))

\* C23 amended: removing a child of a decision node d that has another child
\* cannot increase the value of d; removing d's only child gives d the value
\* -cost(d), which is above the old value exactly when the child's value was
\* negative.
C23_RemovalOfSiblingNeverIncreases ==
    Succeeded =>
        \A p \in DecisionChildPairs :
            LET smaller == calculate_expected_value(Without(p[2]))
                only == Len(ChildrenOf(tree, p[1])) = 1
            IN  /\ "node_expected_values" \in DOMAIN smaller
                /\ p[1].id \in DOMAIN smaller.node_expected_values
                /\ ~only => RLeq(smaller.node_expected_values[p[1].id], EvOf(p[1]))
                /\ only =>
                      /\ smaller.node_expected_values[p[1].id] = RNeg(OrZero(p[1].cost))
                      /\ RLess(EvOf(p[1]), smaller.node_expected_values[p[1].id])
                             <=> RLess(EvOf(p[2]), Zero)

\* A decision node below the root was valued whose only child has a negative
\* value, and one with two children of different value.
C23_Witness ==
    /\ Succeeded
    /\ \E p \in DecisionChildPairs :
          /\ Len(ChildrenOf(tree, p[1])) = 1
          /\ RLess(EvOf(p[2]), Zero)
          /\ p[1].cost = <<10, 1>>
    /\ \E p, q \in DecisionChildPairs :
          /\ p[1] = q[1]
          /\ RLess(EvOf(p[2]), EvOf(q[2]))

-----------------------------------------------------------------------------
(* Two invocations of calculate_expected_value at once *)

\* Largest snapshot given to one of two invocations that run at once.
MaxConcurrentNodes == 2

\* The snapshots of the first invocation; the second is given a snapshot of
\* the same tree taken after one field of one node was edited, so that the
\* two hold nodes of the same ids.
ConcurrentTrees == UNION {PlainTrees(n) : n \in 1..MaxConcurrentNodes}

Invocations == {1, 2}

\* Mutant: both invocations use the maps of the first.
LocalsShared(i) == 1

\* Lines 51, 52, 66, 67: node_dict, children_map, expected_values and
\* calculation_breakdown are local variables, so each invocation has its own.
Locals(i) == i

NoMaps ==
    [children_map |-> <<>>, expected_values |-> <<>>,
     calculation_breakdown |-> <<>>]

\* Lines 54-56: the children of every node, by node id.
ChildrenMap(all_nodes) ==
    [id \in {all_nodes[j].id : j \in DOMAIN all_nodes} |->
        ChildrenOf(all_nodes,
                   all_nodes[CHOOSE j \in DOMAIN all_nodes : all_nodes[j].id = id])]

\* Line 75: children_map.get(node_id, [])
ChildrenGet(children_map, node_id) ==
    IF node_id \in DOMAIN children_map THEN children_map[node_id] ELSE <<>>

\* An invocation that was called and has not run a line yet.  met records
\* whether it took a step while the other invocation was between its first
\* and its last line.
NewRun(snapshot) ==
    [snapshot |-> snapshot, pc |-> "called", stack |-> <<>>,
     result |-> NoResult, met |-> FALSE]

\* A call of calculate_node_ev(node) that has not run a line yet.  pass is 0
\* before line 72, 1 in the loop of line 99 (or 129, 152, 155, 169), 2 in the
\* loop of line 103; k is the child the loop is at.
Frame(node) ==
    [node |-> node, children |-> <<>>, pass |-> 0, k |-> 0, child_evs |-> <<>>]

\* expected_values[node_id] = ev and calculation_breakdown[node_id] = {...}
Write(m, id, ev, type) ==
    [m EXCEPT
        !.expected_values =
            [x \in (DOMAIN @) \cup {id} |-> IF x = id THEN ev ELSE @[x]],
        !.calculation_breakdown =
            [x \in (DOMAIN @) \cup {id} |-> IF x = id THEN type ELSE @[x]]]

\* The innermost call returns ev.  The caller's loop takes the value and
\* goes to the next child (after the loop of line 99 a decision node goes
\* through its children once more, line 103); the return of the first call
\* is the return of the invocation, lines 191-200.
Returned(run, ev, m) ==
    LET rest == SubSeq(run.stack, 1, Len(run.stack) - 1)
        f    == rest[Len(rest)]
        took == IF f.pass = 1 THEN [f EXCEPT !.child_evs = Append(@, ev)] ELSE f
        g    == IF f.pass = 1 /\ f.k = Len(f.children)
                             /\ f.node.node_type = "decision"
                THEN [took EXCEPT !.pass = 2, !.k = 1]
                ELSE [took EXCEPT !.k = @ + 1]
    IN  IF rest = <<>>
        THEN [run EXCEPT
                !.stack = <<>>,
                !.pc = "done",
                !.result =
                    [root_expected_value |-> ev,
                     node_expected_values |-> m.expected_values,
                     calculation_breakdown |-> m.calculation_breakdown,
                     analysis_complete |-> TRUE,
                     calculation_method |-> "recursive_corrected",
                     root_node_id |-> run.stack[1].node.id]]
        ELSE [run EXCEPT !.stack = [rest EXCEPT ![Len(rest)] = g]]

\* Lines 99-176 past the loops: the value and the kind of calculation of a
\* node with children.
ValueWithChildren(all_nodes, f) ==
    CASE f.node.node_type = "decision" ->
            <<DecisionValue(f.node, f.child_evs), "decision">>
      [] is_choice_node(f.node, all_nodes) ->
            <<ChoiceValue(all_nodes, f.node, f.children, f.child_evs),
              "chance_choice">>
      [] is_uncertain_event(f.node, all_nodes) ->
            <<UncertainValue(f.node, f.child_evs), "chance_uncertain">>
      [] OTHER ->
            <<RSub(RDivInt(RSum(f.child_evs), Len(f.child_evs)),
                   OrZero(f.node.cost)),
              "chance_fallback">>

InitConcurrent ==
    /\ tree = <<>>
    /\ op = "idle"
    /\ result = NoResult
    /\ calls = NoCalls
    /\ db = EmptyStore
    /\ maps = [i \in Invocations |-> NoMaps]
    /\ \E a \in ConcurrentTrees : \E b \in Edits(a) :
          /\ a # b
          /\ runs = [i \in Invocations |-> NewRun(IF i = 1 THEN a ELSE b)]

\* One step of invocation i: its new state and the new contents of the maps
\* it uses.
StepOf(i, run, m) ==
    /\ runs' = [runs EXCEPT
                  ![i] = [run EXCEPT
                            !.met = @ \/ \E j \in Invocations \ {i} :
                                            runs[j].pc = "running"]]
    /\ maps' = [maps EXCEPT ![Locals(i)] = m]
    /\ UNCHANGED <<tree, op, result, calls, db>>

\* Lines 39-67: the checks, the maps, the root; the recursion is about to
\* be entered.
Begin ==
    \E i \in Invocations :
        /\ runs[i].pc = "called"
        /\ LET all_nodes  == runs[i].snapshot
               validation == validate_tree_structure(all_nodes)
               root_nodes == RootNodes(all_nodes)
               indexed    == [maps[Locals(i)] EXCEPT
                                !.children_map = ChildrenMap(all_nodes)]
               ends(r, m) == StepOf(i, [runs[i] EXCEPT !.pc = "done",
                                                       !.result = r], m)
           IN  IF all_nodes = <<>>
               THEN ends([error |-> "Tree has no nodes"], maps[Locals(i)])
               ELSE IF ~validation.valid
               THEN ends(ValidationFailure(validation), maps[Locals(i)])
               ELSE IF root_nodes = <<>>
               THEN ends([error |-> "No root node found"], indexed)
               ELSE StepOf(i,
                           [runs[i] EXCEPT
                               !.pc = "running",
                               !.stack = <<Frame(RootNode(root_nodes))>>],
                           [indexed EXCEPT !.expected_values = <<>>,
                                           !.calculation_breakdown = <<>>])

\* Lines 70-97: a call of calculate_node_ev up to its loop over the
\* children, or to its return where it has none to go through.
Visit ==
    \E i \in Invocations :
        /\ runs[i].pc = "running"
        /\ LET run  == runs[i]
               m    == maps[Locals(i)]
               top  == Len(run.stack)
               f    == run.stack[top]
               node == f.node
               children == ChildrenGet(m.children_map, node.id)
               leaf(ev, type) ==
                   StepOf(i, Returned(run, ev, Write(m, node.id, ev, type)),
                          Write(m, node.id, ev, type))
           IN  /\ f.pass = 0
               /\ IF node.id \in DOMAIN m.expected_values
                  THEN StepOf(i, Returned(run, m.expected_values[node.id], m), m)
                  ELSE IF node.node_type = "terminal"
                  THEN leaf(TerminalValue(node), "terminal")
                  ELSE IF node.node_type \notin {"decision", "chance"}
                  THEN leaf(RNeg(OrZero(node.cost)), "unknown")
                  ELSE IF children = <<>>
                  THEN leaf(RNeg(OrZero(node.cost)), node.node_type)
                  ELSE StepOf(i,
                              [run EXCEPT
                                  !.stack[top] = [f EXCEPT !.children = children,
                                                           !.pass = 1,
                                                           !.k = 1]],
                              m)

\* Lines 99, 103, 129, 152, 155, 169: the loop calls calculate_node_ev(child).
Descend ==
    \E i \in Invocations :
        /\ runs[i].pc = "running"
        /\ LET run == runs[i]
               f   == run.stack[Len(run.stack)]
           IN  /\ f.pass > 0
               /\ f.k <= Len(f.children)
               /\ StepOf(i,
                         [run EXCEPT !.stack = Append(@, Frame(f.children[f.k]))],
                         maps[Locals(i)])

\* Lines 100-188 past the loops: the node's value is stored and returned.
Complete ==
    \E i \in Invocations :
        /\ runs[i].pc = "running"
        /\ LET run == runs[i]
               f   == run.stack[Len(run.stack)]
               v   == ValueWithChildren(run.snapshot, f)
               m   == Write(maps[Locals(i)], f.node.id, v[1], v[2])
           IN  /\ f.pass > 0
               /\ f.k > Len(f.children)
               /\ StepOf(i, Returned(run, v[1], m), m)

NextConcurrent == Begin \/ Visit \/ Descend \/ Complete

SpecConcurrent == InitConcurrent /\ [][NextConcurrent]_vars

\* C24: of two invocations of calculate_expected_value on different
\* snapshots whose steps interleave in any order, each returns what
\* calculate_expected_value returns for its snapshot when run alone.
C24_InterleavedAsAlone ==
    \A i \in DOMAIN runs :
        runs[i].pc = "done" =>
            runs[i].result = calculate_expected_value(runs[i].snapshot)

\* Both invocations have returned values, each took steps while the other
\* was running, and they valued a node of the same id differently.
C24_Witness ==
    /\ DOMAIN runs = Invocations
    /\ \A i \in Invocations :
          /\ runs[i].pc = "done"
          /\ runs[i].met
          /\ "node_expected_values" \in DOMAIN runs[i].result
    /\ \E id \in DOMAIN runs[1].result.node_expected_values :
          /\ id \in DOMAIN runs[2].result.node_expected_values
          /\ runs[1].result.node_expected_values[id]
                # runs[2].result.node_expected_values[id]

-----------------------------------------------------------------------------
(* Properties of the store *)

StoredIds(store) == {store.nodes[i].id : i \in DOMAIN store.nodes}

\* The ids met on the way from a node to the top of its tree, the node's own
\* id left out unless the way comes back to it.
RECURSIVE Above(_, _, _)
Above(store, node_id, fuel) ==
    IF fuel = 0 \/ get_node(store, node_id) = None THEN {}
    ELSE LET parent_node_id == get_node(store, node_id).parent_node_id
         IN  IF parent_node_id = NoParent THEN {}
             ELSE {parent_node_id} \cup Above(store, parent_node_id, fuel - 1)

Ancestors(store, node_id) == Above(store, node_id, Len(store.nodes))

StoreAcyclic(store) ==
    \A node_id \in StoredIds(store) : node_id \notin Ancestors(store, node_id)

\* C25: after any sequence of create_node, move_node and delete_node calls
\* (and copies of trees) no stored node is its own ancestor, and move_node
\* raises, leaving every stored node as it was, whenever the new parent is
\* the node itself or a node below it.
C25_MoveKeepsStoreAcyclic ==
    /\ StoreAcyclic(db)
    /\ \A node_id \in StoredIds(db), new_parent_id \in StoredIds(db),
          position \in Positions :
            (new_parent_id = node_id
                \/ node_id \in Ancestors(db, new_parent_id)) =>
                LET out == move_node(db, node_id, new_parent_id, position)
                IN  /\ "raised" \in DOMAIN out.result
                    /\ out.db = db

\* move_node refused to put a node under a node two levels below it.
C25_Witness ==
    /\ op = "move_node"
    /\ "raised" \in DOMAIN result
    /\ result.raised = "Cannot move node - would create circular reference"
    /\ \E a, b \in StoredIds(db) :
          /\ a \in Ancestors(db, b)
          /\ get_node(db, b).parent_node_id # a
          /\ "raised" \in DOMAIN move_node(db, a, b, 1).result

\* The stored nodes that have node_id among their ancestors.
Below(store, node_id) ==
    {n \in StoredIds(store) : node_id \in Ancestors(store, n)}

NoDanglingParent(store) ==
    \A i \in DOMAIN store.nodes :
        store.nodes[i].parent_node_id # NoParent =>
            store.nodes[i].parent_node_id \in StoredIds(store)

\* C26: delete_node of a stored node returns True, removes that node and
\* every node below it, and leaves every other node stored as it was; after
\* any sequence of calls no stored node names a parent that is not stored.
C26_DeleteRemovesSubtree ==
    /\ NoDanglingParent(db)
    /\ \A node_id \in StoredIds(db) :
          LET out == delete_node(db, node_id)
              gone == {node_id} \cup Below(db, node_id)
          IN  /\ out.result = [returned |-> TRUE]
              /\ StoredIds(out.db) = StoredIds(db) \ gone
              /\ \A kept \in StoredIds(out.db) :
                    get_node(out.db, kept) = get_node(db, kept)

\* delete_node has removed a node, and a stored node with a child and a
\* grandchild is left to delete.
C26_Witness ==
    /\ op = "delete_node"
    /\ result = [returned |-> TRUE]
    /\ \E a \in StoredIds(db) :
          /\ \E b, c \in Below(db, a) : b \in Ancestors(db, c)
          /\ Len(delete_node(db, a).db.nodes) = Len(db.nodes) - 3

SameTreeParents(store) ==
    \A i \in DOMAIN store.nodes :
        store.nodes[i].parent_node_id # NoParent =>
            /\ get_node(store, store.nodes[i].parent_node_id) # None
            /\ get_node(store, store.nodes[i].parent_node_id).tree_id
                  = store.nodes[i].tree_id

\* The id names no stored node, or a node of another tree.
BadParent(store, parent_node_id, tree_id) ==
    \/ get_node(store, parent_node_id) = None
    \/ get_node(store, parent_node_id).tree_id # tree_id

\* C27: create_node and move_node raise and leave the store as it was when
\* the parent they are given is not stored or is a node of another tree;
\* after any sequence of calls every stored node with a parent has that
\* parent stored in its own tree.
C27_ForeignParentRefused ==
    /\ SameTreeParents(db)
    /\ \A tree_id \in db.trees, parent_node_id \in NamedNodes :
          BadParent(db, parent_node_id, tree_id) =>
              \A request \in NodeRequests(parent_node_id) :
                  LET out == create_node(db, tree_id,
                                         WithParent(request, parent_node_id))
                  IN  /\ "raised" \in DOMAIN out.result
                      /\ out.db = db
    /\ \A node_id \in StoredIds(db), new_parent_id \in NamedNodes,
          position \in Positions :
            BadParent(db, new_parent_id, get_node(db, node_id).tree_id) =>
                LET out == move_node(db, node_id, new_parent_id, position)
                IN  /\ "raised" \in DOMAIN out.result
                    /\ out.db = db

\* create_node refused a parent of another tree, and a stored node of one
\* tree would be refused as the new parent of a stored node of the other.
C27_Witness ==
    /\ op = "create_node"
    /\ "raised" \in DOMAIN result
    /\ result.raised = "Parent node belongs to different tree"
    /\ \E a, b \in StoredIds(db) :
          /\ get_node(db, a).tree_id # get_node(db, b).tree_id
          /\ move_node(db, a, b, 1).result
                = [raised |-> "Invalid new parent node"]

IdsOfTree(store, tree_id) ==
    {n \in StoredIds(store) : get_node(store, n).tree_id = tree_id}

\* new is stored in after as old is stored in before, its id, tree and parent
\* apart, and its parent is the image of old's parent (none for none).
CopyOf(before, after, f, old, new) ==
    LET o == get_node(before, old)
        n == get_node(after, new)
    IN  /\ n.node_type = o.node_type
        /\ n.probability = o.probability
        /\ n.cost = o.cost
        /\ n.utility = o.utility
        /\ IF o.parent_node_id = NoParent THEN n.parent_node_id = NoParent
           ELSE /\ o.parent_node_id \in DOMAIN f
                /\ n.parent_node_id = f[o.parent_node_id]

\* C28: duplicate_tree of a stored tree returns a tree that was not stored,
\* with as many nodes as the original and a one-to-one map from the old
\* nodes onto the new ones that keeps node_type, probability, cost and
\* utility and takes each old node's parent to the new node's parent; every
\* node stored before is stored unchanged, and no new node has a parent that
\* was stored before.
C28_DuplicateIsIsomorphicCopy ==
    \A tree_id \in db.trees :
        LET out == duplicate_tree(db, tree_id)
            olds == IdsOfTree(db, tree_id)
            news == IdsOfTree(out.db, out.result.returned)
        IN  /\ "returned" \in DOMAIN out.result
            /\ out.result.returned \notin db.trees
            /\ out.db.trees = db.trees \cup {out.result.returned}
            /\ Cardinality(news) = Cardinality(olds)
            /\ \E f \in [olds -> news] :
                  /\ \A a, b \in olds : f[a] = f[b] => a = b
                  /\ \A old \in olds : CopyOf(db, out.db, f, old, f[old])
            /\ \A old \in StoredIds(db) :
                  get_node(out.db, old) = get_node(db, old)
            /\ \A new \in news :
                  get_node(out.db, new).parent_node_id \notin StoredIds(db)

\* duplicate_tree returned a copy of a tree in which a chance node has an
\* outcome below it.
C28_Witness ==
    /\ op = "duplicate_tree"
    /\ "returned" \in DOMAIN result
    /\ result.returned # Missing
    /\ \E a, b \in IdsOfTree(db, result.returned) :
          /\ get_node(db, b).parent_node_id = a
          /\ get_node(db, a).node_type = "chance"
          /\ get_node(db, b).node_type = "terminal"

=============================================================================
